---- MODULE Spec2Model ----
(***************************************************************************)
(* A model of PatternEmitter (src/lib/patternEmitter.js, the RegExp        *)
(* revision, lines 1-337) running on top of Node's EventEmitter            *)
(* (events.js of Node 0.10/0.12, the versions the README names).           *)
(*                                                                         *)
(* JavaScript objects are modelled with their identity: a bucket of a map  *)
(* is either a single function or a reference to an array of the heap, so  *)
(* that push, splice and "length = 0" act on every alias of the array.     *)
(* A map key can be present with the value undefined, which is different   *)
(* from the key being absent.                                              *)
(***************************************************************************)
EXTENDS Integers, Sequences, FiniteSets, TLC

\* ------------------------------------------------------------------ bounds

\* Largest number of listener entries the environment registers in total.
MaxListeners == 2

\* The environment stops where _regexesCount would differ by more than this
\* from the number of registered pattern listeners.
MaxDrift == 1

\* Depth of nested method calls after which the JavaScript engine raises
\* RangeError (stack overflow).
MaxDepth == 7

\* ------------------------------------------------------------------ values

\* A value passed as event type: a string, or a RegExp given by its source.
Str(s) == [k |-> "str", v |-> s]
Re(s) == [k |-> "re", v |-> s]

\* The RegExp /t/g, given by its source and its flag.
ReG == [k |-> "re", v |-> "t/g"]

\* Another RegExp object with the same source: new RegExp(s) next to /s/.
Re2(s) == [k |-> "re", v |-> s, id |-> 2]

\* Strings as character sequences (what RegExp.prototype.test reads).
Chars(s) ==
  CASE s = "test" -> <<"t", "e", "s", "t">>
    [] s = "quiz" -> <<"q", "u", "i", "z">>
    [] s = "zest" -> <<"z", "e", "s", "t">>
    [] s = "error" -> <<"e", "r", "r", "o", "r">>
    [] s = "newListener" -> <<"n", "e", "w", "L", "i", "s", "t", "e", "n", "e", "r">>
    [] s = "removeListener" ->
         <<"r", "e", "m", "o", "v", "e", "L", "i", "s", "t", "e", "n", "e", "r">>
    [] s = "/t/" -> <<"/", "t", "/">>
    [] s = "/z/" -> <<"/", "z", "/">>
    [] s = "t" -> <<"t">>
    [] s = "z" -> <<"z">>
    [] s = "/rr/" -> <<"/", "r", "r", "/">>
    [] s = "/t/g" -> <<"/", "t", "/", "g">>
    [] s = "rr" -> <<"r", "r">>
    [] OTHER -> <<>>

\* String(regex) for the regexes of the model: "/" + source + "/" + flags.
RegexToString(src) ==
  CASE src = "t" -> "/t/"
    [] src = "t/g" -> "/t/g"
    [] src = "z" -> "/z/"
    [] src = "rr" -> "/rr/"
    [] OTHER -> "/(?:)/"

\* The key as it would be if the second RegExp object of an expression had
\* a text of its own.
Key_perObject(type) ==
  IF type.k # "re" THEN type.v
  ELSE IF "id" \in DOMAIN type THEN "/z/" ELSE RegexToString(type.v)

\* String(type): the property key a type value is converted to.
Key(type) == IF type.k = "re" THEN RegexToString(type.v) ELSE type.v

\* regex.source and regex.global of a regex given by source and flags.
Source(r) == IF r = "t/g" THEN "t" ELSE r
Global(r) == r = "t/g"

\* The keys of the regexes with the global flag.
GlobalKeys == {"/t/g"}

\* regex.test(str) for a regex without flags whose source is a literal:
\* true iff the source occurs in str.
RegexTest(src, str) ==
  LET p == Chars(src)
      s == Chars(str)
  IN  \E i \in 0..(Len(s) - Len(p)) :
        \A j \in 1..Len(p) : s[i + j] = p[j]

\* The indices (from 0) at or after from at which the source occurs in str.
Occurrences(src, str, from) ==
  {i \in from..(Len(Chars(str)) - Len(Chars(src))) :
     \A j \in 1..Len(Chars(src)) : Chars(str)[i + j] = Chars(src)[j]}

\* regex.test(str) for a regex with the global flag whose lastIndex is from:
\* the search starts at lastIndex.
GlobalTest(r, str, from) == Occurrences(Source(r), str, from) # {}

\* regex.lastIndex after that test: the end of the first match found, 0 when
\* there is none.
LastIndexAfter(r, str, from) ==
  IF Occurrences(Source(r), str, from) = {} THEN 0
  ELSE (CHOOSE i \in Occurrences(Source(r), str, from) :
          \A k \in Occurrences(Source(r), str, from) : i <= k)
       + Len(Chars(Source(r)))

\* Functions. kind "fn": a plain function called name; kind "once": the
\* closure g that once(type, listener) creates, with listener called name
\* and type [k |-> tk, v |-> tv]; kind "notfn": a value that is no function;
\* kind "undef": undefined.
Fn(n) == [kind |-> "fn", name |-> n, tk |-> "", tv |-> ""]
OnceG(type, n) == [kind |-> "once", name |-> n, tk |-> type.k, tv |-> type.v]
\* The closure invokeOnce that onceOnPattern(pattern, listener) creates, with
\* listener called n.
InvokeOnce(pattern, n) ==
  [kind |-> "invokeOnce", name |-> n, tk |-> "str", tv |-> pattern]
NotFn == [kind |-> "notfn", name |-> "invalid", tk |-> "", tv |-> ""]
UndefL == [kind |-> "undef", name |-> "", tk |-> "", tv |-> ""]

\* Listeners that call the emitter they are invoked on, type being
\* [k |-> tk, v |-> tv]:
\*   Adder(type)    function() { this.addListener(type, f1); }
\*   Remover(type)  function() { this.removeListener(type, f1); }
\*   Leaver(type)   function leaver() { this.removeListener(type, leaver); }
Adder(type) ==
  [kind |-> "adder", tk |-> type.k, tv |-> type.v,
   name |-> IF type.k = "re" THEN "addsPattern" ELSE "addsLiteral"]
Remover(type) ==
  [kind |-> "remover", tk |-> type.k, tv |-> type.v,
   name |-> IF type.k = "re" THEN "removesPattern" ELSE "removesLiteral"]
Leaver(type) ==
  [kind |-> "leaver", tk |-> type.k, tv |-> type.v,
   name |-> IF type.k = "re" THEN "leavesPattern" ELSE "leavesLiteral"]

Reentrant == {"adder", "remover", "leaver"}

\* Listeners that call the emitter back without changing a registration:
\*   Echo(type)   function echo() { if (busy) return; busy = true;
\*                  this.emit(type); busy = false; }
\*   Asker(type)  function asker() { seen = this.matchingListeners(type); }
Echo(type) == [kind |-> "echo", tk |-> type.k, tv |-> type.v, name |-> "echo"]
Asker(type) == [kind |-> "asker", tk |-> type.k, tv |-> type.v, name |-> "asker"]

Nesting == {"echo", "asker"}

IsFunction(l) ==
  l.kind \in {"fn", "once", "invokeOnce"} \cup Reentrant \cup Nesting

\* fn.length, the number of declared parameters: f1 is function(a) {...};
\* f0, thr, thr0 and the closure g of once declare none.
FnLength(l) == IF l.kind = "fn" /\ l.name = "f1" THEN 1 ELSE 0

\* g.listener: the original listener of a once closure.
ListenerOf(l) ==
  IF l.kind \in {"once", "invokeOnce"} THEN Fn(l.name) ELSE UndefL

\* Values of map entries. "absent": the key is not in the object; "undef":
\* the key is present with value undefined; "fn": a function; "arr": the
\* array heap[a].
Absent == [t |-> "absent", l |-> UndefL, a |-> 0]
Undef == [t |-> "undef", l |-> UndefL, a |-> 0]
FnV(l) == [t |-> "fn", l |-> l, a |-> 0]
ArrV(i) == [t |-> "arr", l |-> UndefL, a |-> i]

\* The value a property read yields (undefined for an absent key).
Read(v) == IF v.t = "absent" THEN Undef ELSE v

\* JavaScript truthiness of such a value: functions and arrays (also the
\* empty array) are truthy, undefined is falsy.
Truthy(v) == v.t \in {"fn", "arr"}



\* --------------------------------------------------------- emitter state

\* The emitter and the outcome of the operation in progress, as one record:
\*   ev, pev  this._events and this._patternEvents (key -> value)
\*   rx       this._regexes: the sources of the stored regexes, in the
\*            insertion order of their keys (the order of for..in)
\*   last     the lastIndex of the stored regexes that have the global flag
\*   cnt      this._regexesCount
\*   event    this.event
\*   heap     the arrays, by identity
\*   fired    the once closures whose variable "fired" ("invoked") is true
\*   calls    the plain listeners that ran, with the this.event and the
\*            arguments each one saw
\*   thrown   the exception in flight ("none" when there is none)
\*   ret      the value returned
\*   proto    the prototype the methods of the object are looked up in:
\*            "PatternEmitter", or "EventEmitter" for a plain EventEmitter
Thrown(st) == st.thrown # "none"

Throw(st, e) == [st EXCEPT !.thrown = e, !.ret = "undefined"]

Return(st, r) == [st EXCEPT !.ret = r]

\* The elements of the bucket v: the array's elements, or the function.
Elems(heap, v) ==
  CASE v.t = "arr" -> heap[v.a]
    [] v.t = "fn" -> <<v.l>>
    [] OTHER -> <<>>

\* An argument value standing for a function passed as argument.
ArgFn(l) == [k |-> l.kind, v |-> l.name]

\* if (error) throw error: the values an "if" takes as true. Every Error
\* object is truthy.
ErrTruthy(e) == e \notin {"none", "0", "undefined"}

HasRegex(rx, pattern) == \E i \in 1..Len(rx) : RegexToString(rx[i]) = pattern

RECURSIVE RemoveAt(_, _)
RemoveAt(s, i) ==
  IF i = 1 THEN Tail(s) ELSE <<Head(s)>> \o RemoveAt(Tail(s), i - 1)

\* delete this._regexes[pattern]
DeleteRegex(rx, pattern) ==
  LET hit == {i \in 1..Len(rx) : RegexToString(rx[i]) = pattern}
  IN  IF hit = {} THEN rx ELSE RemoveAt(rx, CHOOSE i \in hit : TRUE)

\* ------------------------------------------- PatternEmitter._getMatching

\* The body of "for (var pattern in this._regexes)" from its i-th key on;
\* matching is the value of the variable, heap the arrays so far.
\* regex.test(str) for the stored regex r, and the emitter after it.
Hit(st, r, str) ==
  IF Global(r) THEN GlobalTest(r, str, st.last[RegexToString(r)])
  ELSE RegexTest(r, str)

Tested(st, r, str) ==
  IF Global(r)
  THEN [st EXCEPT !.last[RegexToString(r)] = LastIndexAfter(r, str, @)]
  ELSE st

RECURSIVE GetMatchingFrom(_, _, _, _, _)
GetMatchingFrom(st, str, i, matching, heap) ==
  IF i > Len(st.rx) THEN [v |-> matching, heap |-> heap, last |-> st.last]
  ELSE
    LET pattern == RegexToString(st.rx[i])
    IN  IF ~Hit(st, st.rx[i], str)
        THEN GetMatchingFrom(Tested(st, st.rx[i], str), str, i + 1, matching,
                             heap)
        ELSE IF ~Truthy(matching)
        THEN GetMatchingFrom(Tested(st, st.rx[i], str), str, i + 1,
                             Read(st.pev[pattern]), heap)
        ELSE
          LET pv == Read(st.pev[pattern])
              listeners == IF pv.t = "arr" THEN heap[pv.a]
                           ELSE IF pv.t = "fn" THEN <<pv.l>> ELSE <<UndefL>>
              first == IF matching.t = "arr" THEN heap[matching.a]
                       ELSE <<matching.l>>
              heap2 == Append(heap, first \o listeners)
          IN  GetMatchingFrom(Tested(st, st.rx[i], str), str, i + 1,
                              ArrV(Len(heap2)), heap2)

\* _getMatching as it would be without "if (typeof type !== 'string') return
\* matching": the patterns are tested against String(type).
_getMatching_anyType(st, type) ==
  GetMatchingFrom(st, Key(type), 1, Read(st.ev[Key(type)]), st.heap)

\* _getMatching as it would be if for..in visited the patterns in the
\* alphabetical order of their keys.
_getMatching_sorted(st, type) ==
  LET matching == Read(st.ev[Key(type)])
      sorted == SelectSeq(<<"t", "z">>,
                          LAMBDA src : HasRegex(st.rx, RegexToString(src)))
  IN  IF type.k # "str"
      THEN [v |-> matching, heap |-> st.heap, last |-> st.last]
      ELSE GetMatchingFrom([st EXCEPT !.rx = sorted], type.v, 1, matching,
                           st.heap)

\* this._getMatching(type): the literal bucket, then for a string type the
\* buckets of the matching patterns; [v |-> the value returned, heap |-> the
\* heap with the arrays concat created].
_getMatching(st, type) ==
  LET matching == Read(st.ev[Key(type)])
  IN  IF type.k # "str"
      THEN [v |-> matching, heap |-> st.heap, last |-> st.last]
      ELSE GetMatchingFrom(st, type.v, 1, matching, st.heap)

\* The emitter after a call of this._getMatching(type) whose result is
\* dropped.
Asked(st, type) == [st EXCEPT !.last = _getMatching(st, type).last]

\* ------------------------------------------------ the emitter's methods

\* A call, made from inside a method or a listener, of the method called fn
\* of the emitter: this.emit(type, args...), this.removeListener(type,
\* listener), fn.apply(emitter, [type, listener]). d is the number of nested
\* calls of methods the stack still has room for.
RECURSIVE Do(_, _, _, _, _, _)

\* "return r" after a call that left s: the exception of s goes on.
Done(s, r) == IF Thrown(s) THEN s ELSE Return(s, r)

\* A call of the plain function l with this = the emitter.
Apply(st, l, args, d) ==
  IF l.name = "thr" THEN Throw(st, "Error")
  ELSE IF l.name = "thr0" THEN Throw(st, "0")
  ELSE [st EXCEPT !.calls =
          Append(@, [fn |-> l.name, event |-> st.event, args |-> args])]

\* The once closure g after its this.removeListener(type, g) left s1:
\* if (!fired) { fired = true; listener.apply(this, arguments); }
FireOnce(s1, g, args, d) ==
  IF Thrown(s1) THEN s1
  ELSE IF g \in s1.fired THEN s1
  ELSE Apply([s1 EXCEPT !.fired = @ \cup {g}], Fn(g.name), args, d)

\* The listener echo after its this.emit(type) left s1: busy = false. The
\* log gets an entry that marks the end of the nested emission.
Echoed(s1, l) ==
  IF Thrown(s1) THEN s1
  ELSE [s1 EXCEPT !.fired = @ \ {l},
                  !.calls = Append(@, [fn |-> "echoed", event |-> s1.event,
                                       args |-> <<>>])]

\* A call of the listener l with this = the emitter.
Invoke(st, l, args, d) ==
  IF l.kind = "fn" THEN Apply(st, l, args, d)
  ELSE IF l.kind = "once"
  THEN FireOnce(Do(st, "removeListener", [k |-> l.tk, v |-> l.tv], l, <<>>, d),
                l, args, d)
  ELSE IF l.kind = "adder"
  THEN Do(Apply(st, l, args, d), "addListener", [k |-> l.tk, v |-> l.tv],
          Fn("f1"), <<>>, d)
  ELSE IF l.kind = "remover"
  THEN Do(Apply(st, l, args, d), "removeListener", [k |-> l.tk, v |-> l.tv],
          Fn("f1"), <<>>, d)
  ELSE IF l.kind = "leaver"
  THEN Do(Apply(st, l, args, d), "removeListener", [k |-> l.tk, v |-> l.tv],
          l, <<>>, d)
  ELSE IF l.kind = "echo"
  THEN IF l \in st.fired THEN st
       ELSE Echoed(Do(Apply([st EXCEPT !.fired = @ \cup {l}], l, args, d),
                      "emit", [k |-> l.tk, v |-> l.tv], UndefL, <<>>, d), l)
  ELSE IF l.kind = "asker"
  THEN Do(st, "ask", [k |-> l.tk, v |-> l.tv], l, <<>>, d)
  ELSE Throw(st, "TypeError")

\* for (i = 0; i < len; i++) listeners[i].apply(this, args), from i on;
\* RunNext: the loop after the call of listeners[i] left s1.
RECURSIVE RunAll(_, _, _, _, _)
RunNext(s1, ls, i, args, d) ==
  IF Thrown(s1) THEN s1 ELSE RunAll(s1, ls, i + 1, args, d)

RunAll(st, ls, i, args, d) ==
  IF i > Len(ls) THEN st
  ELSE RunNext(Invoke(st, ls[i], args, d), ls, i, args, d)

\* emit as it would be if it looped over the bucket itself and not over
\* handler.slice(): the loop reads the array a again at every step.
RECURSIVE RunLive(_, _, _, _, _)
RunLiveNext(s1, a, i, args, d) ==
  IF Thrown(s1) THEN s1 ELSE RunLive(s1, a, i + 1, args, d)

RunLive(st, a, i, args, d) ==
  IF i > Len(st.heap[a]) THEN st
  ELSE RunLiveNext(Invoke(st, st.heap[a][i], args, d), a, i, args, d)

_emit_live(st, type, args, d) ==
  LET handler == st.ev[Key(type)]
  IN  IF ~Truthy(handler) THEN Return(st, "false")
      ELSE IF handler.t = "fn"
      THEN Done(Invoke(st, handler.l, args, d), "true")
      ELSE Done(RunLive(st, handler.a, 1, args, d), "true")

\* EventEmitter.prototype.emit
_emit(st, type, args, d) ==
  LET key == Key(type)
      er == st.ev["error"]
      handler == st.ev[key]
  IN  IF key = "error"
         /\ (~Truthy(er) \/ (er.t = "arr" /\ Len(st.heap[er.a]) = 0))
      THEN IF Len(args) > 0 /\ args[1].k = "Error"
           THEN Throw(st, "Error") ELSE Throw(st, "TypeError")
      ELSE IF ~Truthy(handler) THEN Return(st, "false")
      ELSE IF handler.t = "fn"
      THEN Done(Invoke(st, handler.l, args, d), "true")
      ELSE Done(RunAll(st, st.heap[handler.a], 1, args, d), "true")

\* if (error) throw error, as it would be if the error were dropped.
Rethrow_dropped(s) ==
  IF Thrown(s) THEN [s EXCEPT !.thrown = "none", !.ret = "undefined"] ELSE s

\* if (error) throw error; return result, after a try/catch that left s: an
\* exception that is falsy is dropped.
Rethrow(s) ==
  IF Thrown(s) /\ ~ErrTruthy(s.thrown)
  THEN [s EXCEPT !.thrown = "none", !.ret = "undefined"]
  ELSE s

\* What would follow emit's try/catch without "this._events[type] =
\* listeners": the matching sequence stays in the literal bucket.
emit_keep(s2, key, listeners) == Rethrow(s2)

\* emit after its try/catch left s2: this._events[type] = listeners;
\* if (error) throw error; return result.
emit_restore(s2, key, listeners) ==
  Rethrow([s2 EXCEPT !.ev[key] = listeners])

\* emit from "this._events[type] = this._getMatching(type)" on, m being what
\* _getMatching returned.
emit_swap(s0, m, type, args, d) ==
  emit_restore(_emit([s0 EXCEPT !.ev[Key(type)] = m.v, !.heap = m.heap,
                                !.last = m.last],
                     type, args, d),
               Key(type), Read(s0.ev[Key(type)]))

\* emit as it would be without the shortcut taken when _regexesCount is 0.
emit_matching(st, type, args, d) ==
  emit_swap([st EXCEPT !.event = type],
            _getMatching([st EXCEPT !.event = type], type), type, args, d)

\* PatternEmitter.prototype.emit
emit(st, type, args, d) ==
  IF st.cnt = 0 THEN _emit(st, type, args, d)
  ELSE emit_swap([st EXCEPT !.event = type],
                 _getMatching([st EXCEPT !.event = type], type), type, args, d)

\* EventEmitter.prototype.addListener after its emit of 'newListener' left s1.
_addListener_store(s1, key, listener) ==
  LET cur == s1.ev[key]
  IN  IF Thrown(s1) THEN s1
      ELSE IF ~Truthy(cur)
      THEN Return([s1 EXCEPT !.ev[key] = FnV(listener)], "this")
      ELSE IF cur.t = "arr"
      THEN Return([s1 EXCEPT !.heap[cur.a] = Append(@, listener)], "this")
      ELSE Return([s1 EXCEPT !.heap = Append(@, <<cur.l, listener>>),
                             !.ev[key] = ArrV(Len(s1.heap) + 1)], "this")

\* addListener as it would be if it stored the listener before it emitted
\* 'newListener'.
_addListener_early(st, type, listener, d) ==
  IF ~IsFunction(listener) THEN Throw(st, "TypeError")
  ELSE IF Truthy(st.ev["newListener"])
  THEN Done(Do(_addListener_store(st, Key(type), listener),
               "emit", Str("newListener"), UndefL,
               <<type, ArgFn(IF IsFunction(ListenerOf(listener))
                             THEN ListenerOf(listener) ELSE listener)>>, d),
            "this")
  ELSE _addListener_store(st, Key(type), listener)

\* EventEmitter.prototype.addListener
_addListener(st, type, listener, d) ==
  IF ~IsFunction(listener) THEN Throw(st, "TypeError")
  ELSE IF Truthy(st.ev["newListener"])
  THEN _addListener_store(
         Do(st, "emit", Str("newListener"), UndefL,
            <<type, ArgFn(IF IsFunction(ListenerOf(listener))
                          THEN ListenerOf(listener) ELSE listener)>>, d),
         Key(type), listener)
  ELSE _addListener_store(st, Key(type), listener)

\* The position removeListener finds: the last i with list[i] === listener
\* or list[i].listener === listener, 0 when there is none.
Position(list, listener) ==
  LET hit == {i \in 1..Len(list) :
                list[i] = listener \/ ListenerOf(list[i]) = listener}
  IN  IF hit = {} THEN 0 ELSE CHOOSE i \in hit : \A j \in hit : j <= i

\* removeListener as it would be if it left the bucket as it is.
_removeListener_splice_kept(st, key, listener) == st

\* EventEmitter.prototype.removeListener up to its emit: the listener found
\* and taken out of the bucket (st itself when it is not found).
_removeListener_splice(st, key, listener) ==
  LET list == st.ev[key]
  IN  IF ~Truthy(list) THEN st
      ELSE IF list.t = "fn"
      THEN IF list.l = listener \/ ListenerOf(list.l) = listener
           THEN [st EXCEPT !.ev[key] = Absent]
           ELSE st
      ELSE
        LET position == Position(st.heap[list.a], listener)
        IN  IF position = 0 THEN st
            ELSE IF Len(st.heap[list.a]) = 1
            THEN [st EXCEPT !.heap[list.a] = <<>>, !.ev[key] = Absent]
            ELSE [st EXCEPT !.heap[list.a] = RemoveAt(@, position)]

\* if (this._events.removeListener) this.emit('removeListener', type, listener)
_removeListener_notify(s, type, listener, d) ==
  IF Truthy(s.ev["removeListener"])
  THEN Do(s, "emit", Str("removeListener"), UndefL, <<type, ArgFn(listener)>>, d)
  ELSE s

\* EventEmitter.prototype.removeListener
_removeListener(st, type, listener, d) ==
  IF ~IsFunction(listener) THEN Throw(st, "TypeError")
  ELSE IF _removeListener_splice(st, Key(type), listener) = st
  THEN Return(st, "this")
  ELSE Done(_removeListener_notify(_removeListener_splice(st, Key(type), listener),
                                   type, listener, d), "this")

\* while (listeners.length) this.removeListener(type, listeners[listeners.length - 1]);
\* n bounds the iterations: a loop that would not end is reported as "hang".
\* RemoveNext: the loop after a call of removeListener left s1.
RECURSIVE RemoveLast(_, _, _, _, _)
RemoveNext(s1, type, a, d, n) ==
  IF Thrown(s1) THEN s1 ELSE RemoveLast(s1, type, a, d, n - 1)

RemoveLast(st, type, a, d, n) ==
  IF Len(st.heap[a]) = 0 THEN st
  ELSE IF n = 0 THEN Throw(st, "hang")
  ELSE RemoveNext(Do(st, "removeListener", type, st.heap[a][Len(st.heap[a])],
                     <<>>, d),
                  type, a, d, n)

\* delete this._events[type]; return this, after the removals left s1.
_removeAllListeners_delete(s1, key) ==
  IF Thrown(s1) THEN s1 ELSE Return([s1 EXCEPT !.ev[key] = Absent], "this")

\* EventEmitter.prototype.removeAllListeners, called with a type
_removeAllListeners(st, type, d) ==
  LET key == Key(type)
      listeners == st.ev[key]
  IN  IF ~Truthy(st.ev["removeListener"])
      THEN IF Truthy(listeners)
           THEN Return([st EXCEPT !.ev[key] = Absent], "this")
           ELSE Return(st, "this")
      ELSE IF listeners.t = "fn"
      THEN _removeAllListeners_delete(
             Do(st, "removeListener", type, listeners.l, <<>>, d), key)
      ELSE IF listeners.t = "arr"
      THEN _removeAllListeners_delete(
             RemoveLast(st, type, listeners.a, d,
                        Len(st.heap[listeners.a]) + MaxDepth), key)
      ELSE _removeAllListeners_delete(st, key)

\* _apply as it would be if it left the pattern's bucket in _events.
_apply_restore_merged(s1, pattern, typeListeners) ==
  Rethrow([s1 EXCEPT !.pev[pattern] = Read(s1.ev[pattern])])

\* _apply after its try/catch left s1:
\*   emitter._patternEvents[pattern] = emitter._events[pattern];
\*   emitter._events[pattern] = typeListeners;
\*   if (error) throw error; return result.
_apply_restore(s1, pattern, typeListeners) ==
  Rethrow([s1 EXCEPT !.pev[pattern] = Read(s1.ev[pattern]),
                     !.ev[pattern] = typeListeners])

\* PatternEmitter._apply(emitter, fn, pattern, args), with args = [pattern,
\* listener] or [pattern]; fn is given by name.
_apply(st, fn, pattern, listener, d) ==
  _apply_restore(Do([st EXCEPT !.ev[pattern] = Read(st.pev[pattern])],
                    fn, Str(pattern), listener, <<>>, d),
                 pattern, Read(st.ev[pattern]))

\* addListener after _apply left s1:
\* if (!this._regexes[pattern]) this._regexes[pattern] = type; return this.
addListener_store(s1, type) ==
  IF Thrown(s1) THEN s1
  ELSE IF ~HasRegex(s1.rx, Key(type))
  THEN Return([s1 EXCEPT !.rx = Append(@, type.v),
                         !.last = [k \in GlobalKeys |->
                                     IF k = Key(type) THEN 0 ELSE @[k]]],
              "this")
  ELSE Return(s1, "this")

\* PatternEmitter.prototype.addListener (and its alias on)
addListener(st, type, listener, d) ==
  IF type.k # "re" THEN _addListener(st, type, listener, d)
  ELSE addListener_store(
         _apply([st EXCEPT !.event = Str("newListener"), !.cnt = @ + 1],
                "_addListener", Key(type), listener, d),
         type)

\* if (!this._patternEvents[pattern] || !this._patternEvents[pattern].length):
\* .length is the element count of an array and the number of declared
\* parameters of a function.
NoLength(heap, v) ==
  \/ ~Truthy(v)
  \/ v.t = "arr" /\ Len(heap[v.a]) = 0
  \/ v.t = "fn" /\ FnLength(v.l) = 0

\* if (!this._patternEvents[pattern] || !this._patternEvents[pattern].length)
\*   delete this._patternEvents[pattern];
removeListener_bucket(s1, pattern) ==
  IF NoLength(s1.heap, s1.pev[pattern])
  THEN [s1 EXCEPT !.pev[pattern] = Absent] ELSE s1

\* removeListener without "delete this._regexes[pattern]".
removeListener_regex_kept(s2, pattern) == s2

\* if (!this._patternEvents[pattern] && this._regexes[pattern])
\*   delete this._regexes[pattern];
removeListener_regex(s2, pattern) ==
  IF ~Truthy(s2.pev[pattern]) /\ HasRegex(s2.rx, pattern)
  THEN [s2 EXCEPT !.rx = DeleteRegex(@, pattern)] ELSE s2

\* removeListener after _apply left s1.
removeListener_clean(s1, pattern) ==
  IF Thrown(s1) THEN s1
  ELSE Return(removeListener_regex(removeListener_bucket(s1, pattern), pattern),
              "this")

\* PatternEmitter.prototype.removeListener
removeListener(st, type, listener, d) ==
  IF type.k # "re" THEN _removeListener(st, type, listener, d)
  ELSE removeListener_clean(
         _apply([st EXCEPT !.event = Str("removeListener"), !.cnt = @ - 1],
                "removeListener", Key(type), listener, d),
         Key(type))

\* removeAllListeners after _apply left s1:
\* delete this._patternEvents[pattern];
\* if (this._regexes[pattern]) delete this._regexes[pattern]; return this.
removeAllListeners_clean(s1, pattern) ==
  IF Thrown(s1) THEN s1
  ELSE Return([s1 EXCEPT !.pev[pattern] = Absent,
                         !.rx = DeleteRegex(@, pattern)], "this")

\* PatternEmitter.prototype.removeAllListeners
removeAllListeners(st, type, d) ==
  IF type.k # "re" THEN _removeAllListeners(st, type, d)
  ELSE removeAllListeners_clean(
         _apply([st EXCEPT !.event = Str("removeListener")],
                "removeAllListeners", Key(type), UndefL, d),
         Key(type))

\* The revision whose patterns are strings keeps new RegExp(pattern) in
\* _regexes[pattern]: rx holds the pattern strings.
HasPattern(rx, pattern) == \E i \in 1..Len(rx) : rx[i] = pattern

DeletePattern(rx, pattern) == SelectSeq(rx, LAMBDA q : q # pattern)

\* new RegExp(pattern) returns for "t" and "z"; for "(" it throws a
\* SyntaxError (unterminated group).
Compiles(pattern) == pattern # "("

\* addPatternListener after _apply left s1:
\* if (!this._regexes[pattern]) this._regexes[pattern] = new RegExp(pattern);
\* return this.
addPatternListener_compile(s1, pattern) ==
  IF Thrown(s1) THEN s1
  ELSE IF HasPattern(s1.rx, pattern) THEN Return(s1, "this")
  ELSE IF Compiles(pattern)
  THEN Return([s1 EXCEPT !.rx = Append(@, pattern)], "this")
  ELSE Throw(s1, "SyntaxError")

\* PatternEmitter.prototype.addPatternListener (and its alias onPattern);
\* this.addListener is EventEmitter's.
addPatternListener(st, pattern, listener, d) ==
  IF pattern.k # "str" THEN Throw(st, "TypeError")
  ELSE addPatternListener_compile(
         _apply([st EXCEPT !.event = Str("newListener")],
                "_addListener", pattern.v, listener, d),
         pattern.v)

\* PatternEmitter.prototype.onceOnPattern
onceOnPattern(st, pattern, listener, d) ==
  IF pattern.k # "str" THEN Throw(st, "TypeError")
  ELSE IF ~IsFunction(listener) THEN Throw(st, "TypeError")
  ELSE Done(addPatternListener(
              [st EXCEPT !.fired = @ \ {InvokeOnce(pattern.v, listener.name)}],
              pattern, InvokeOnce(pattern.v, listener.name), d),
            "this")

\* removePatternListener after _apply left s1: the two deletes, return this.
removePatternListener_clean(s1, pattern) ==
  IF Thrown(s1) THEN s1
  ELSE IF ~Truthy(removeListener_bucket(s1, pattern).pev[pattern])
          /\ HasPattern(s1.rx, pattern)
  THEN Return([removeListener_bucket(s1, pattern) EXCEPT
                 !.rx = DeletePattern(@, pattern)], "this")
  ELSE Return(removeListener_bucket(s1, pattern), "this")

\* PatternEmitter.prototype.removePatternListener; this.removeListener is
\* EventEmitter's.
removePatternListener(st, pattern, listener, d) ==
  IF pattern.k # "str" THEN Throw(st, "TypeError")
  ELSE removePatternListener_clean(
         _apply([st EXCEPT !.event = Str("removeListener")],
                "removeListener", pattern.v, listener, d),
         pattern.v)

\* removeAllPatternListeners after _apply left s1: the two deletes, return
\* this.
removeAllPatternListeners_clean(s1, pattern) ==
  IF Thrown(s1) THEN s1
  ELSE Return([s1 EXCEPT !.pev[pattern] = Absent,
                         !.rx = DeletePattern(@, pattern)], "this")

\* PatternEmitter.prototype.removeAllPatternListeners
removeAllPatternListeners(st, pattern, d) ==
  IF pattern.k # "str" THEN Throw(st, "TypeError")
  ELSE removeAllPatternListeners_clean(
         _apply([st EXCEPT !.event = Str("removeListener")],
                "removeAllListeners", pattern.v, UndefL, d),
         pattern.v)

\* EventEmitter.prototype.listeners(type)
listeners(st, type) == Elems(st.heap, st.ev[Key(type)])

\* PatternEmitter.prototype.matchingListeners(type)
matchingListeners(st, type) ==
  LET m == _getMatching(st, type) IN Elems(m.heap, m.v)

\* EventEmitter.listenerCount(emitter, type): 0 for no value, 1 for a
\* function, the length for an array.
EventEmitter_listenerCount(st, type) ==
  IF ~Truthy(st.ev[Key(type)]) THEN 0
  ELSE IF st.ev[Key(type)].t = "fn" THEN 1
  ELSE Len(st.heap[st.ev[Key(type)].a])

Do(st, fn, type, listener, args, d) ==
  IF d = 0 THEN Throw(st, "RangeError")
  ELSE IF fn = "listeners" THEN Return(st, listeners(st, type))
  ELSE IF fn = "listenerCount"
  THEN Return(st, EventEmitter_listenerCount(st, type))
  ELSE IF fn = "ask"
  THEN Apply(Asked(st, type), listener, matchingListeners(st, type), d)
  ELSE IF st.proto = "EventEmitter"
  THEN CASE fn = "emit" -> _emit(st, type, args, d - 1)
         [] fn \in {"_addListener", "addListener"} ->
              _addListener(st, type, listener, d - 1)
         [] fn = "removeListener" -> _removeListener(st, type, listener, d - 1)
         [] fn = "removeAllListeners" -> _removeAllListeners(st, type, d - 1)
  ELSE CASE fn = "emit" -> emit(st, type, args, d - 1)
         [] fn = "_addListener" -> _addListener(st, type, listener, d - 1)
         [] fn = "addListener" -> addListener(st, type, listener, d - 1)
         [] fn = "removeListener" -> removeListener(st, type, listener, d - 1)
         [] fn = "removeAllListeners" -> removeAllListeners(st, type, d - 1)

\* EventEmitter.prototype.once: registers the closure g through this.on.
once(st, type, listener, d) ==
  IF ~IsFunction(listener) THEN Throw(st, "TypeError")
  ELSE IF st.proto = "EventEmitter"
  THEN _addListener([st EXCEPT !.fired = @ \ {OnceG(type, listener.name)}],
                    type, OnceG(type, listener.name), d)
  ELSE addListener([st EXCEPT !.fired = @ \ {OnceG(type, listener.name)}],
                   type, OnceG(type, listener.name), d)

\* patternListeners as it would be without its check of the pattern's type.
patternListeners_anyKey(st, pattern) ==
  _apply(st, "listeners", Key(pattern), UndefL, MaxDepth)

\* PatternEmitter.prototype.patternListeners(pattern), as a call: the
\* emitter it leaves, with the array returned or the exception thrown.
patternListeners_call(st, pattern) ==
  IF pattern.k # "re" THEN Throw(st, "TypeError")
  ELSE _apply(st, "listeners", Key(pattern), UndefL, MaxDepth)

\* listenerCount as it would be if it counted the listeners of the matching
\* patterns as well.
listenerCount_matching(st, type) == Len(matchingListeners(st, type))

\* PatternEmitter.listenerCount(emitter, type)
listenerCount(st, type) == EventEmitter_listenerCount(st, type)

\* PatternEmitter.patternListenerCount(emitter, pattern), as a call: the
\* emitter it leaves, with the number returned or the exception thrown.
patternListenerCount(st, pattern) ==
  IF pattern.k # "re" THEN Throw(st, "TypeError")
  ELSE _apply(st, "listenerCount", Key(pattern), UndefL, MaxDepth)

\* PatternEmitter.matchingListenerCount(emitter, type)
matchingListenerCount(st, type) == Len(matchingListeners(st, type))

\* patternListeners and patternListenerCount of the revision whose patterns
\* are strings: if (typeof pattern !== 'string') throw TypeError(...).
patternListeners_string(st, pattern) ==
  IF pattern.k # "str" THEN Throw(st, "TypeError")
  ELSE _apply(st, "listeners", pattern.v, UndefL, MaxDepth)

patternListenerCount_string(st, pattern) ==
  IF pattern.k # "str" THEN Throw(st, "TypeError")
  ELSE _apply(st, "listenerCount", pattern.v, UndefL, MaxDepth)


\* ------------------------------------------------------------ the program

VARIABLES
  _events,          \* this._events: key -> value
  _patternEvents,   \* this._patternEvents: pattern key -> value
  _regexes,         \* this._regexes: the stored regexes, in key order
  _regexesCount,    \* this._regexesCount
  event,            \* this.event
  heap,             \* the arrays the maps refer to
  fired,            \* the registered once closures that have fired
  lastIndex,        \* the lastIndex of the stored global regexes
  call,             \* the last call made on the emitter
  ret,              \* what it returned
  thrown,           \* what it threw ("none": it returned)
  calls,            \* the listeners it ran, in order
  world             \* the values the environment draws its arguments from

vars == <<_events, _patternEvents, _regexes, _regexesCount, event, heap, fired,
          lastIndex, call, ret, thrown, calls, world>>

\* The keys the maps of the model can hold: the text of /t/g where the
\* environment passes it, the pattern strings where it uses the API of the
\* revision whose patterns are strings.
EventNames == {"test", "quiz", "zest", "error", "newListener", "removeListener"}
PatternOrder ==
  IF world = "strings" THEN <<"t", "(">>
  ELSE <<"/t/", "/z/", "/rr/">> \o (IF world = "flags" THEN <<"/t/g">> ELSE <<>>)
PatternKeys == {PatternOrder[i] : i \in 1..Len(PatternOrder)}
AllKeys == EventNames \cup PatternKeys
KeyOrder ==
  <<"test", "quiz", "zest", "error", "newListener", "removeListener">>
    \o PatternOrder

\* The emitter at the start of a call.
Cur ==
  [ev |-> _events, pev |-> _patternEvents, rx |-> _regexes,
   cnt |-> _regexesCount, event |-> event, heap |-> heap, fired |-> fired,
   last |-> lastIndex,
   calls |-> <<>>, thrown |-> "none", ret |-> "undefined",
   proto |-> "PatternEmitter"]

\* The values of both maps, in a fixed order.
Values(st) ==
  [i \in 1..Len(KeyOrder) |-> st.ev[KeyOrder[i]]]
    \o [i \in 1..Len(PatternOrder) |-> st.pev[PatternOrder[i]]]

\* The arrays the maps refer to, in the order of their first reference.
RECURSIVE Refs(_, _)
Refs(vals, acc) ==
  IF vals = <<>> THEN acc
  ELSE LET v == Head(vals)
       IN  Refs(Tail(vals),
                IF v.t = "arr" /\ ~(\E j \in 1..Len(acc) : acc[j] = v.a)
                THEN Append(acc, v.a) ELSE acc)

Renumber(refs, v) ==
  IF v.t = "arr" THEN ArrV(CHOOSE j \in 1..Len(refs) : refs[j] = v.a) ELSE v

\* The functions registered in some bucket.
Registered(st) ==
  UNION {{Elems(st.heap, v)[i] : i \in 1..Len(Elems(st.heap, v))} :
           v \in {st.ev[k] : k \in AllKeys} \cup {st.pev[k] : k \in PatternKeys}}

\* Garbage collection between two calls: the arrays no map refers to are
\* dropped and the others numbered in the order of Refs; the closures no
\* bucket holds any more are forgotten.
Collect(st) ==
  LET refs == Refs(Values(st), <<>>)
  IN  [st EXCEPT !.ev = [k \in AllKeys |-> Renumber(refs, st.ev[k])],
                 !.pev = [k \in PatternKeys |-> Renumber(refs, st.pev[k])],
                 !.heap = [i \in 1..Len(refs) |-> st.heap[refs[i]]],
                 !.fired = st.fired \cap Registered(st)]

\* The number of listener entries in all buckets.
RECURSIVE SumLen(_, _)
SumLen(h, vals) ==
  IF vals = <<>> THEN 0
  ELSE Len(Elems(h, Head(vals))) + SumLen(h, Tail(vals))

Total(st) == SumLen(st.heap, Values(st))

\* A call c that ends in st.
Step(st, c) ==
  \E n \in {Collect(st)} :
      /\ _events' = n.ev
      /\ _patternEvents' = n.pev
      /\ _regexes' = n.rx
      /\ _regexesCount' = n.cnt
      /\ event' = n.event
      /\ heap' = n.heap
      /\ fired' = n.fired
      /\ lastIndex' = n.last
      /\ call' = c
      /\ ret' = n.ret
      /\ thrown' = n.thrown
      /\ calls' = n.calls
      /\ world' = world

\* new PatternEmitter()
Fresh ==
  /\ _events = [k \in AllKeys |-> Absent]
  /\ _patternEvents = [k \in PatternKeys |-> Absent]
  /\ _regexes = <<>>
  /\ _regexesCount = 0
  /\ event = Str("")
  /\ heap = <<>>
  /\ fired = {}
  /\ lastIndex = [k \in GlobalKeys |-> 0]
  /\ call = [op |-> "new", type |-> Str("")]
  /\ ret = "this"
  /\ thrown = "none"
  /\ calls = <<>>

\* What the environment passes, by world: the types it registers and
\* removes with, the functions it passes as listeners, the functions it
\* passes to once, the types it emits and the argument lists it emits with.
Types ==
  CASE world \in {"lifecycle", "parting"} ->
         {Str("removeListener"), Re("t"), Re("z")}
    [] world = "throwing" -> {Str("test"), Re("t")}
    [] world = "errors" -> {Str("test"), Str("error"), Re("t")}
    [] world = "reentrant" -> {Str("test"), Re("t")}
    [] world = "namesake" -> {Str("/t/"), Re("t")}
    [] world = "twins" -> {Str("test"), Re("t"), Re2("t")}
    [] world = "newcomers" -> {Str("newListener"), Re("t")}
    [] world = "ordering" -> {Str("zest"), Re("t"), Re("z")}
    [] world = "unhandled" -> {Str("error"), Re("rr")}
    [] world = "legacy" -> {Str("test"), Str("newListener"), Str("removeListener")}
    [] world = "queries" -> {Str("/t/"), Re("t"), Re("z")}
    [] world = "nested" -> {Str("test"), Re("t")}
    [] world = "outer" -> {Str("test"), Re("t")}
    [] world = "flags" -> {Str("test"), ReG}
    [] world = "falsy" -> {Str("test"), Re("t")}
    [] OTHER -> {Str("test"), Re("t"), Re("z")}

Functions ==
  CASE world \in {"lifecycle", "queries", "parting", "flags"} -> {Fn("f1")}
    [] world \in {"namesake", "twins", "newcomers", "ordering", "unhandled"} ->
         {Fn("f0"), Fn("f1")}
    [] world \in {"throwing", "errors", "legacy"} -> {Fn("f1"), Fn("thr")}
    [] world = "reentrant" ->
         {Fn("f1"), Leaver(Re("t"))}
           \cup {Adder(t) : t \in {Str("test"), Re("t")}}
           \cup {Remover(t) : t \in {Str("test"), Re("t")}}
    [] world = "nested" -> {Fn("f1"), Echo(Str("test")), Asker(Str("test"))}
    [] world = "outer" -> {Fn("f1"), Echo(Str("quiz")), Remover(Re("t"))}
    [] world = "falsy" -> {Fn("f1"), Fn("thr0")}
    [] OTHER -> {Fn("f0"), Fn("f1")}

\* The values that are not functions it passes as a listener.
Invalid == IF world = "core" THEN {NotFn} ELSE {}

OnceFunctions == {Fn("f0")}

\* The functions passed to once that it also passes to removeListener.
Parting == IF world = "parting" THEN OnceFunctions ELSE {}

EmitTypes ==
  CASE world = "namesake" -> {Str("/t/"), Re("t")}
    [] world = "ordering" -> {Str("zest")}
    [] world = "queries" -> {Str("/t/")}
    [] world = "unhandled" -> {Str("error")}
    [] OTHER -> {Str("test")}

\* An Error object passed as the argument of an 'error' event.
Err == [k |-> "Error", v |-> "e"]

EmitArgs ==
  CASE world = "core" -> {<<>>, <<Str("x")>>}
    [] world = "unhandled" -> {<<>>, <<Err>>}
    [] OTHER -> {<<>>}

\* The number of listener entries the environment registers at most: one
\* more in the worlds with fewer functions.
Room ==
  IF world \in {"core", "reentrant", "queries"} THEN MaxListeners
  ELSE MaxListeners + 1

\* The number of listener entries at which the environment stops: listeners
\* that add listeners can bring the emitter one entry beyond Room.
Limit == Room + 1

\* The number of pattern listener entries.
PatternTotal(st) ==
  SumLen(st.heap, [i \in 1..Len(PatternOrder) |-> st.pev[PatternOrder[i]]])

\* The environment stops where _regexesCount would be further than MaxDrift
\* from the number of pattern listeners.
InDrift(st) ==
  /\ st.cnt - PatternTotal(st) <= MaxDrift
  /\ PatternTotal(st) - st.cnt <= MaxDrift

\* A call that ends in st, within the environment's bounds.
Call(st, c) ==
  \E n \in {st} : InDrift(n) /\ Total(n) <= Limit /\ Step(n, c)

\* emitter.addListener(type, listener), emitter.on(type, listener)
AddListener(type, listener) ==
  /\ IsFunction(listener) => Total(Cur) < Room
  /\ Call(addListener(Cur, type, listener, MaxDepth),
          [op |-> "addListener", type |-> type])

\* emitter.once(type, listener); the closure it creates is a new function.
Once(type, listener) ==
  /\ Total(Cur) < Room
  /\ OnceG(type, listener.name) \notin Registered(Cur)
  /\ Call(once(Cur, type, listener, MaxDepth),
          [op |-> "once", type |-> type])

\* emitter.removeListener(type, listener)
RemoveListener(type, listener) ==
  Call(removeListener(Cur, type, listener, MaxDepth),
       [op |-> "removeListener", type |-> type])

\* emitter.removeAllListeners(type)
RemoveAllListeners(type) ==
  Call(removeAllListeners(Cur, type, MaxDepth),
       [op |-> "removeAllListeners", type |-> type])

\* emitter.emit(type, args...)
Emit(type, args) ==
  Call(emit(Cur, type, args, MaxDepth), [op |-> "emit", type |-> type])

\* emitter.listeners(type)
Listeners(type) ==
  Call(Return(Cur, listeners(Cur, type)), [op |-> "listeners", type |-> type])

\* emitter.patternListeners(pattern)
PatternListeners(pattern) ==
  Call(patternListeners_call(Cur, pattern),
       [op |-> "patternListeners", type |-> pattern])

\* emitter.matchingListeners(type)
MatchingListeners(type) ==
  Call(Return(Asked(Cur, type), matchingListeners(Cur, type)),
       [op |-> "matchingListeners", type |-> type])

\* PatternEmitter.listenerCount(emitter, type)
ListenerCount(type) ==
  Call(Return(Cur, listenerCount(Cur, type)),
       [op |-> "listenerCount", type |-> type])

\* PatternEmitter.patternListenerCount(emitter, pattern)
PatternListenerCount(pattern) ==
  Call(patternListenerCount(Cur, pattern),
       [op |-> "patternListenerCount", type |-> pattern])

\* PatternEmitter.matchingListenerCount(emitter, type)
MatchingListenerCount(type) ==
  Call(Return(Asked(Cur, type), matchingListenerCount(Cur, type)),
       [op |-> "matchingListenerCount", type |-> type])

Next ==
  \/ \E type \in Types, listener \in Functions \cup Invalid :
       AddListener(type, listener)
  \/ \E type \in Types, listener \in OnceFunctions : Once(type, listener)
  \/ \E type \in Types, listener \in Functions \cup Invalid \cup Parting :
       RemoveListener(type, listener)
  \/ \E type \in Types : RemoveAllListeners(type)
  \/ \E type \in EmitTypes, args \in EmitArgs : Emit(type, args)

\* Literal and pattern listeners, values that are no functions, two event
\* names.
Init == world = "core" /\ Fresh

Spec == Init /\ [][Next]_vars

\* One event name, one pattern, a listener that throws.
InitThrowing == world = "throwing" /\ Fresh

SpecThrowing == InitThrowing /\ [][Next]_vars

\* A listener that throws, listeners of the 'error' event.
InitErrors == world = "errors" /\ Fresh

SpecErrors == InitErrors /\ [][Next]_vars

\* Listeners that add and remove listeners while they are invoked.
InitReentrant == world = "reentrant" /\ Fresh

SpecReentrant == InitReentrant /\ [][Next]_vars

\* A literal event name that is the text of a pattern: '/t/' and /t/.
InitNamesake == world = "namesake" /\ Fresh

SpecNamesake == InitNamesake /\ [][Next]_vars

\* Two RegExp objects with the same expression.
InitTwins == world = "twins" /\ Fresh

SpecTwins == InitTwins /\ [][Next]_vars

\* Listeners of the 'newListener' event and of a pattern that matches it.
InitNewcomers == world = "newcomers" /\ Fresh

SpecNewcomers == InitNewcomers /\ [][Next]_vars

\* Two patterns that match the same name: /t/ and /z/ for 'zest'.
InitOrdering == world = "ordering" /\ Fresh

SpecOrdering == InitOrdering /\ [][Next]_vars

\* The 'error' event and a pattern that matches it: /rr/.
InitUnhandled == world = "unhandled" /\ Fresh

SpecUnhandled == InitUnhandled /\ [][Next]_vars

\* No RegExp at all: the calls an EventEmitter takes as well.
InitLegacy == world = "legacy" /\ Fresh

SpecLegacy == InitLegacy /\ [][Next]_vars

\* Listeners of the 'removeListener' event, and pattern listeners removed
\* by the function they were registered with.
InitParting == world = "parting" /\ Fresh

SpecParting == InitParting /\ [][Next]_vars

\* The pattern strings the environment passes: "t", and "(", which is no
\* regular expression.
PatternStrings == {Str("t"), Str("(")}

\* A call of the revision whose patterns are strings (it has no
\* _regexesCount) that ends in st.
CallOnPattern(st, c) == Total(st) <= Limit /\ Step(st, c)

\* emitter.addPatternListener(pattern, listener)
AddPatternListener(pattern, listener) ==
  /\ Total(Cur) < Room
  /\ CallOnPattern(addPatternListener(Cur, pattern, listener, MaxDepth),
                   [op |-> "addPatternListener", type |-> pattern])

\* emitter.onceOnPattern(pattern, listener)
OnceOnPattern(pattern, listener) ==
  /\ Total(Cur) < Room
  /\ InvokeOnce(pattern.v, listener.name) \notin Registered(Cur)
  /\ CallOnPattern(onceOnPattern(Cur, pattern, listener, MaxDepth),
                   [op |-> "onceOnPattern", type |-> pattern])

\* emitter.removePatternListener(pattern, listener)
RemovePatternListener(pattern, listener) ==
  CallOnPattern(removePatternListener(Cur, pattern, listener, MaxDepth),
                [op |-> "removePatternListener", type |-> pattern])

\* emitter.removeAllPatternListeners(pattern)
RemoveAllPatternListeners(pattern) ==
  CallOnPattern(removeAllPatternListeners(Cur, pattern, MaxDepth),
                [op |-> "removeAllPatternListeners", type |-> pattern])

NextStrings ==
  \/ \E pattern \in PatternStrings, listener \in Functions :
       AddPatternListener(pattern, listener)
  \/ \E pattern \in PatternStrings, listener \in OnceFunctions :
       OnceOnPattern(pattern, listener)
  \/ \E pattern \in PatternStrings, listener \in Functions \cup OnceFunctions :
       RemovePatternListener(pattern, listener)
  \/ \E pattern \in PatternStrings : RemoveAllPatternListeners(pattern)

\* The registration calls of the revision whose patterns are strings.
InitStrings == world = "strings" /\ Fresh

SpecStrings == InitStrings /\ [][NextStrings]_vars

\* The calls that change listeners, and the calls that ask for them.
NextQueries ==
  \/ Next
  \/ \E type \in Types : Listeners(type)
  \/ \E pattern \in Types : PatternListeners(pattern)
  \/ \E type \in Types : MatchingListeners(type)
  \/ \E type \in Types : ListenerCount(type)
  \/ \E pattern \in Types : PatternListenerCount(pattern)
  \/ \E type \in Types : MatchingListenerCount(type)

\* A name that is the text of a pattern that matches it, and the calls that
\* ask for listeners and their number.
InitQueries == world = "queries" /\ Fresh

SpecQueries == InitQueries /\ [][NextQueries]_vars

\* Listeners that emit the event again, or ask for its listeners, while
\* they are invoked.
InitNested == world = "nested" /\ Fresh

SpecNested == InitNested /\ [][Next]_vars

\* Listeners that emit another event, or remove a pattern listener, while
\* they are invoked.
InitOuter == world = "outer" /\ Fresh

SpecOuter == InitOuter /\ [][Next]_vars

\* A pattern with the global flag, and the calls that ask for listeners.
InitFlags == world = "flags" /\ Fresh

SpecFlags == InitFlags /\ [][NextQueries]_vars

\* A listener that throws 0: function thr0() { throw 0; }.
InitFalsy == world = "falsy" /\ Fresh

SpecFalsy == InitFalsy /\ [][Next]_vars

\* Pattern listeners and listeners of the 'removeListener' event.
InitLifecycle == world = "lifecycle" /\ Fresh

SpecLifecycle == InitLifecycle /\ [][Next]_vars


\* ------------------------------------------------------------ properties

\* The emitter at the end of a call.
Post ==
  [ev |-> _events', pev |-> _patternEvents', rx |-> _regexes',
   cnt |-> _regexesCount', event |-> event', heap |-> heap', fired |-> fired',
   last |-> lastIndex',
   calls |-> calls', thrown |-> thrown', ret |-> ret',
   proto |-> "PatternEmitter"]

\* The step is the call emit(t, a), and the call removeListener(t, l).
Emitted(t, a) == call'.op = "emit" /\ call'.type = t /\ Emit(t, a)
Removed(t, l) ==
  call'.op = "removeListener" /\ call'.type = t /\ RemoveListener(t, l)

\* The source of the regex a pattern key is the text of.
PatternSrc(key) ==
  IF key = "/t/" THEN "t" ELSE IF key = "/z/" THEN "z"
  ELSE IF key = "/t/g" THEN "t/g" ELSE "rr"

\* The listener entries registered for the literal type, and for a pattern.
LiteralEntries(st, type) == Elems(st.heap, st.ev[Key(type)])
PatternEntries(st, p) == Elems(st.heap, st.pev[p])

\* The number of entries of the sequence s that satisfy Test.
CountOf(s, Test(_)) == Cardinality({i \in 1..Len(s) : Test(s[i])})

\* The registered entries an emission of the string type str concerns: the
\* literal ones of str, then those of the patterns whose regex matches str.
RECURSIVE MatchingEntries(_, _, _)
MatchingEntries(st, str, ps) ==
  IF ps = <<>> THEN <<>>
  ELSE (IF RegexTest(PatternSrc(Head(ps)), str)
        THEN PatternEntries(st, Head(ps)) ELSE <<>>)
         \o MatchingEntries(st, str, Tail(ps))

Concerned(st, type) ==
  LiteralEntries(st, type) \o MatchingEntries(st, type.v, PatternOrder)

\* The function an entry runs when it is invoked in st: itself, or for a
\* once closure that has not fired the listener it wraps ("" when none).
Body(st, e) ==
  IF e.kind \in {"fn"} \cup Reentrant THEN e.name
  ELSE IF e.kind = "once" /\ e \notin st.fired THEN e.name
  ELSE ""

\* How often the function called n is due to run when type is emitted in st,
\* and how often it ran according to the log cs.
Due(st, type, n) ==
  LET es == Concerned(st, type)
  IN  Cardinality({i \in 1..Len(es) : Body(st, es[i]) = n})

Ran(cs, n) == Cardinality({i \in 1..Len(cs) : cs[i].fn = n})

PlainNames == {"f0", "f1"}

\* C1: emit(N) invokes every registered literal listener of N and every
\* registered pattern listener whose regex matches N (when no listener
\* throws).
C1_NoOmission ==
  [][\A t \in EmitTypes, a \in EmitArgs :
       Emitted(t, a) /\ thrown' = "none" =>
         \A n \in PlainNames : Ran(calls', n) >= Due(Cur, t, n)]_vars


\* The functions the log cs names, in order.
Names(cs) == [i \in 1..Len(cs) |-> cs[i].fn]

\* The elements of a sequence.
Range(s) == {s[i] : i \in 1..Len(s)}

IsPlain(e) == e.kind = "fn" /\ e.name \in PlainNames

\* One literal listener on type, one listener on one pattern that matches
\* type, nothing else registered; both are plain functions that return.
OneLiteralOnePattern(st, type, p) ==
  /\ Total(st) = 2
  /\ Len(LiteralEntries(st, type)) = 1
  /\ Len(PatternEntries(st, p)) = 1
  /\ RegexTest(PatternSrc(p), type.v)
  /\ IsPlain(LiteralEntries(st, type)[1])
  /\ IsPlain(PatternEntries(st, p)[1])

\* C2: with one literal listener L on N and one pattern listener P whose
\* regex matches N and nothing else registered, emit(N) invokes L once, then
\* P once.
C2_LiteralThenPattern ==
  [][\A t \in EmitTypes, a \in EmitArgs, p \in PatternKeys :
       Emitted(t, a) /\ OneLiteralOnePattern(Cur, t, p) =>
         Names(calls') = <<LiteralEntries(Cur, t)[1].name,
                           PatternEntries(Cur, p)[1].name>>]_vars

\* C3: emit(N) returns false iff matchingListeners(N) is empty when it is
\* called, and true otherwise.
C3_FalseIffNoneMatching ==
  [][\A t \in EmitTypes, a \in EmitArgs :
       Emitted(t, a) /\ thrown' = "none" =>
         /\ ret' \in {"true", "false"}
         /\ ret' = "false" <=> matchingListeners(Cur, t) = <<>>]_vars

\* The once closures among the entries es that have not fired in st.
Unfired(st, es) == {g \in Range(es) : g.kind = "once" /\ g \notin st.fired}

\* C4: a once listener on a pattern runs exactly once over successive
\* matching emits: the first matching emit runs it, and when that emit has
\* returned it is not among matchingListeners any more and, if it was the
\* pattern's only listener, the pattern is in neither map.
C4_OncePatternFiresOnce ==
  [][\A t \in EmitTypes, a \in EmitArgs, p \in PatternKeys :
       Emitted(t, a) /\ thrown' = "none" /\ RegexTest(PatternSrc(p), t.v) =>
         \A g \in Unfired(Cur, PatternEntries(Cur, p)) :
           /\ Ran(calls', g.name) = Due(Cur, t, g.name)
           /\ g \notin Range(matchingListeners(Post, t))
           /\ PatternEntries(Cur, p) = <<g>> =>
                /\ _patternEvents'[p].t = "absent"
                /\ ~HasRegex(_regexes', p)]_vars

\* C5: a once listener on a literal name N is removed when it fires, also
\* with pattern listeners registered: when emit(N) has returned it is not in
\* listeners(N), and an emit(N) for which only once listeners that fired
\* before are left returns false.
C5_OnceLiteralRemoved ==
  [][\A t \in EmitTypes, a \in EmitArgs :
       Emitted(t, a) /\ thrown' = "none" =>
         /\ \A g \in Range(LiteralEntries(Cur, t)) :
              g.kind = "once" => g \notin Range(listeners(Post, t))
         /\ (\A e \in Range(Concerned(Cur, t)) : e \in fired) => ret' = "false"]_vars

\* l is not registered under type: it is not an entry of the bucket of type,
\* nor the listener a once closure of that bucket wraps.
NotRegisteredUnder(st, type, l) ==
  LET es == IF type.k = "re" THEN PatternEntries(st, Key(type))
            ELSE LiteralEntries(st, type)
  IN  \A e \in Range(es) : e # l /\ ListenerOf(e) # l

SameBuckets(a, b) ==
  /\ \A k \in AllKeys : Elems(a.heap, a.ev[k]) = Elems(b.heap, b.ev[k])
  /\ \A k \in PatternKeys : Elems(a.heap, a.pev[k]) = Elems(b.heap, b.pev[k])

\* What a caller and the listeners can see of a call's outcome.
Outcome(st) == <<Names(st.calls), st.ret, st.thrown>>

\* C6: removeListener(key, cb) with cb not registered under key raises no
\* error and changes nothing: the buckets, the regexes and what every later
\* emit invokes and returns are as before the call.
C6_RemoveAbsentIsNoOp ==
  [][\A t \in Types, l \in Functions :
       Removed(t, l) /\ NotRegisteredUnder(Cur, t, l) =>
         /\ thrown' = "none"
         /\ SameBuckets(Cur, Post)
         /\ _regexes' = _regexes
         /\ \A et \in EmitTypes :
              Outcome(emit(Post, et, <<>>, MaxDepth))
                = Outcome(emit(Cur, et, <<>>, MaxDepth))]_vars

\* The keys of this._patternEvents and of this._regexes.
PatternEventKeys == {k \in PatternKeys : _patternEvents[k].t # "absent"}
RegexKeys == {RegexToString(_regexes[i]) : i \in 1..Len(_regexes)}

RegistryOps == {"addListener", "once", "removeListener", "removeAllListeners"}

\* C7: after every addListener, once, removeListener or removeAllListeners
\* call on a pattern, returned or thrown, _patternEvents and _regexes have
\* the same keys.
C7_SameKeys ==
  call.op \in RegistryOps /\ call.type.k = "re" => PatternEventKeys = RegexKeys

\* C9: every listener emit(N, a1..ak) invokes sees this.event = N and gets
\* exactly a1..ak.
C9_EventAndArguments ==
  [][\A t \in EmitTypes, a \in EmitArgs :
       Emitted(t, a) =>
         \A i \in 1..Len(calls') : calls'[i].event = t /\ calls'[i].args = a]_vars

\* C10: when a listener throws during emit(N), the caller gets the error and
\* listeners(N) is what it was before the call.
C10_RestoredOnThrow ==
  [][\A t \in EmitTypes, a \in EmitArgs :
       Emitted(t, a) /\ thrown' # "none" =>
         /\ thrown' = "Error"
         /\ listeners(Post, t) = listeners(Cur, t)]_vars


\* The regexes stored for the patterns other than p, in key order.
OtherRegexes(rx, p) == SelectSeq(rx, LAMBDA src : RegexToString(src) # p)

\* What C8 says of a step that removes l from the pattern t: the pattern's
\* last listener gone, the pattern is in neither map; listeners left behind
\* are in their order and the regex is kept; other patterns are as before.
RemovalEffect(t, l) ==
  LET p == Key(t)
      pre == PatternEntries(Cur, p)
      post == PatternEntries(Post, p)
  IN  /\ Len(pre) = 1 =>
           _patternEvents'[p].t = "absent" /\ ~HasRegex(_regexes', p)
      /\ Len(pre) > 1 =>
           /\ \E i \in 1..Len(pre) :
                /\ pre[i] = l \/ ListenerOf(pre[i]) = l
                /\ post = RemoveAt(pre, i)
           /\ HasRegex(_regexes', p)
      /\ \A q \in PatternKeys \ {p} :
           PatternEntries(Post, q) = PatternEntries(Cur, q)
      /\ OtherRegexes(_regexes', p) = OtherRegexes(_regexes, p)

\* The 'removeListener' event of a removal reaches a once listener of a
\* pattern: a literal 'removeListener' listener is registered, and a once
\* closure under a pattern that matches the name.
OnceNotified(st) ==
  /\ Truthy(st.ev["removeListener"])
  /\ \E e \in Range(MatchingEntries(st, "removeListener", PatternOrder)) :
       e.kind = "once"

\* C8: a removeListener(pattern, cb) that removes the pattern's last listener
\* deletes the pattern from _patternEvents and from _regexes; one that leaves
\* listeners behind keeps them in their order and keeps the regex; the
\* entries of the other patterns are as before in both cases.
C8_RemoveLastDeletesPattern ==
  [][\A t \in {x \in Types : x.k = "re"}, l \in Functions \cup OnceFunctions :
       Removed(t, l) /\ thrown' = "none" /\ ~NotRegisteredUnder(Cur, t, l) =>
         RemovalEffect(t, l)]_vars

\* C8 as amended: the same, for the removals whose 'removeListener' event
\* reaches no once listener of a pattern (such a listener runs during the
\* removal and removes itself).
C8_UnlessOnceNotified ==
  [][\A t \in {x \in Types : x.k = "re"}, l \in Functions \cup OnceFunctions :
       Removed(t, l) /\ thrown' = "none" /\ ~NotRegisteredUnder(Cur, t, l)
         /\ ~OnceNotified(Cur) =>
         RemovalEffect(t, l)]_vars

\* A removal of the last listener of /z/ that notified the 'removeListener'
\* listener, while /t/ keeps a listener.
C8_LastRemoved ==
  /\ call = [op |-> "removeListener", type |-> Re("z")]
  /\ thrown = "none"
  /\ Len(calls) = 1 /\ calls[1].args[1] = Str("/z/")
  /\ _patternEvents["/z/"].t = "absent" /\ ~HasRegex(_regexes, "/z/")
  /\ PatternEntries(Cur, "/t/") # <<>> /\ HasRegex(_regexes, "/t/")

\* C10 as amended: when a listener throws during emit(N), the caller gets the
\* error and listeners(N) is what it was before the call, except that once
\* listeners may have left it: no other listener is missing or added, and
\* the order is kept.
C10_RestoredButForOnce ==
  [][\A t \in EmitTypes, a \in EmitArgs :
       Emitted(t, a) /\ thrown' # "none" =>
         /\ thrown' = "Error"
         /\ listeners(Post, t) =
              SelectSeq(listeners(Cur, t),
                        LAMBDA e : e.kind # "once" \/ e \in Range(listeners(Post, t)))]_vars

\* An emit('test') that a listener ended by throwing, after another listener
\* ran, with a literal and a pattern listener registered and counted.
C10_ThrewWithPattern ==
  /\ call = [op |-> "emit", type |-> Str("test")]
  /\ thrown = "Error"
  /\ calls # <<>>
  /\ _regexesCount > 0
  /\ PatternEntries(Cur, "/t/") # <<>>
  /\ LiteralEntries(Cur, Str("test")) # <<>>

\* The listeners emit(type) dispatches to in st: the literal ones alone when
\* _regexesCount is 0, the matching sequence otherwise.
Dispatched(st, type) ==
  IF st.cnt = 0 THEN LiteralEntries(st, type) ELSE matchingListeners(st, type)

\* The entries of es before the first one that throws.
BeforeThrow(es) ==
  LET hit == {i \in 1..Len(es) : es[i] = Fn("thr")}
  IN  IF hit = {} THEN es
      ELSE SubSeq(es, 1, (CHOOSE i \in hit : \A j \in hit : i <= j) - 1)

\* The functions the entries es run when invoked in st, in order.
Bodies(st, es) ==
  LET bs == [i \in 1..Len(es) |-> Body(st, es[i])]
  IN  SelectSeq(bs, LAMBDA n : n # "")

\* emit(t) dispatches to a listener that throws.
Throws(st, t) == Fn("thr") \in Range(Dispatched(st, t))

Added(t, l) ==
  call'.op = "addListener" /\ call'.type = t /\ AddListener(t, l)

\* The emitter a later call finds once the step's call has returned or thrown.
After == [Post EXCEPT !.calls = <<>>, !.thrown = "none", !.ret = "undefined"]

\* C12: addListener(key, x) with x not a function throws TypeError and
\* changes no state: both maps, the regexes, _regexesCount and the event
\* field are as before the call, and every later emit invokes and returns
\* what it would have without the call.
C12_InvalidAddChangesNothing ==
  [][\A t \in Types, l \in Invalid :
       Added(t, l) =>
         /\ thrown' = "TypeError"
         /\ _events' = _events
         /\ _patternEvents' = _patternEvents
         /\ _regexes' = _regexes
         /\ _regexesCount' = _regexesCount
         /\ event' = event
         /\ \A et \in EmitTypes :
              Outcome(emit(After, et, <<>>, MaxDepth))
                = Outcome(emit(Cur, et, <<>>, MaxDepth))]_vars

\* The patterns among the environment's types.
Patterns == {t \in Types : t.k = "re"}

\* C13: removeListener(pattern, x) with x not a function throws TypeError
\* and changes no state: the pattern buckets, the regexes and the counter
\* are as before, and a later matching emit invokes what it invoked before.
C13_InvalidRemoveChangesNothing ==
  [][\A t \in Patterns, l \in Invalid :
       Removed(t, l) =>
         /\ thrown' = "TypeError"
         /\ SameBuckets(Cur, Post)
         /\ _regexes' = _regexes
         /\ _regexesCount' = _regexesCount
         /\ \A et \in EmitTypes :
              Outcome(emit(After, et, <<>>, MaxDepth))
                = Outcome(emit(Cur, et, <<>>, MaxDepth))]_vars

\* PatternEmitter.prototype.patternListeners(pattern): the value returned,
\* this.listeners(pattern) read while _events[pattern] holds the pattern's
\* bucket.
patternListeners(st, pattern) == Elems(st.heap, Read(st.pev[Key(pattern)]))

\* Every listener emit(type) invokes in st is a plain function: none of
\* them adds or removes a listener.
Quiet(st, type) == \A e \in Range(Dispatched(st, type)) : e.kind = "fn"

EventTypes == {Str(n) : n \in EventNames}

\* C14: an emit(N) that invokes only listeners that leave the registry
\* alone changes no registration: listeners(K), matchingListeners(K) for
\* every name K and patternListeners(P) for every pattern P return after the
\* emit what they returned before it.
C14_EmitKeepsRegistry ==
  [][\A t \in EmitTypes, a \in EmitArgs :
       Emitted(t, a) /\ Quiet(Cur, t) =>
         /\ \A K \in EventTypes :
              /\ listeners(After, K) = listeners(Cur, K)
              /\ matchingListeners(After, K) = matchingListeners(Cur, K)
         /\ \A P \in Patterns :
              patternListeners(After, P) = patternListeners(Cur, P)]_vars

\* An emit has invoked a literal and a pattern listener, both still
\* registered.
C14_EmittedToBoth ==
  /\ call = [op |-> "emit", type |-> Str("test")]
  /\ Names(calls) = <<"f1", "f1">>
  /\ _regexesCount = 1
  /\ listeners(Cur, Str("test")) = <<Fn("f1")>>
  /\ patternListeners(Cur, Re("t")) = <<Fn("f1")>>

\* The listener l is registered once, on the pattern p, and emit(type)
\* invokes it in st.
OnlyOnPattern(st, type, p, l) ==
  /\ l \in Range(Dispatched(st, type))
  /\ CountOf(Concerned(st, type), LAMBDA e : e = l) = 1
  /\ l \in Range(PatternEntries(st, p))

\* C15: when a pattern listener removes itself while emit(N) invokes it, that
\* emit still invokes every listener of the sequence it started with, in
\* order, and the next emit(N) does not invoke the removed listener, which is
\* no longer among the pattern's listeners.
C15_LeaverKeepsDispatch ==
  [][\A t \in EmitTypes, a \in EmitArgs :
       Emitted(t, a) /\ OnlyOnPattern(Cur, t, "/t/", Leaver(Re("t"))) =>
         /\ thrown' = "none"
         /\ Names(calls') = Bodies(Cur, Dispatched(Cur, t))
         /\ Leaver(Re("t")) \notin Range(patternListeners(After, Re("t")))
         /\ Leaver(Re("t")) \notin Range(matchingListeners(After, t))
         /\ "leavesPattern" \notin
              Range(Names(emit(After, t, a, MaxDepth).calls))]_vars

\* A pattern listener removed itself during an emit that went on to invoke
\* the listener after it.
C15_LeftBeforeNext ==
  /\ call = [op |-> "emit", type |-> Str("test")]
  /\ Names(calls) = <<"leavesPattern", "f1">>
  /\ patternListeners(Cur, Re("t")) = <<Fn("f1")>>

\* Some listener emit(type) invokes in st adds or removes a listener.
Mutating(st, type) ==
  \E e \in Range(Dispatched(st, type)) : e.kind \in Reentrant \cup {"once"}

\* C16: the listeners one emit(N) invokes are exactly the sequence it started
\* with, in that order, whatever its listeners add or remove on the way: a
\* listener added during the dispatch is not invoked by it, and a removal
\* makes the dispatch skip no listener.
C16_DispatchIsSnapshot ==
  [][\A t \in EmitTypes, a \in EmitArgs :
       Emitted(t, a) /\ Mutating(Cur, t) =>
         /\ thrown' = "none"
         /\ Names(calls') = Bodies(Cur, Dispatched(Cur, t))]_vars

\* An emit invoked a listener that another listener had removed earlier in
\* the same emit.
C16_InvokedThoughRemoved ==
  /\ call = [op |-> "emit", type |-> Str("test")]
  /\ Names(calls) = <<"removesPattern", "f1">>
  /\ patternListeners(Cur, Re("t")) = <<>>

\* The step is a call of op with the type t.
Called(op, t) == call'.op = op /\ call'.type = t

\* C17: the string '/t/' and the RegExp /t/ name separate buckets. A call of
\* addListener, once, removeListener or removeAllListeners with the string
\* leaves patternListeners(/t/) and the stored regexes as they are, a call
\* with the RegExp leaves listeners('/t/') as it is, and a listener that is
\* added goes to the end of the bucket of the type it was added with.
C17_SeparateNamespaces ==
  [][/\ call'.op \in RegistryOps /\ call'.type = Str("/t/") =>
          /\ patternListeners(After, Re("t")) = patternListeners(Cur, Re("t"))
          /\ _regexes' = _regexes
     /\ call'.op \in RegistryOps /\ call'.type = Re("t") =>
          listeners(After, Str("/t/")) = listeners(Cur, Str("/t/"))
     /\ \A l \in Functions :
          /\ Called("addListener", Str("/t/")) /\ AddListener(Str("/t/"), l) =>
               listeners(After, Str("/t/"))
                 = Append(listeners(Cur, Str("/t/")), l)
          /\ Called("addListener", Re("t")) /\ AddListener(Re("t"), l) =>
               patternListeners(After, Re("t"))
                 = Append(patternListeners(Cur, Re("t")), l)
     /\ Called("removeAllListeners", Str("/t/")) =>
          listeners(After, Str("/t/")) = <<>>
     /\ Called("removeAllListeners", Re("t")) =>
          patternListeners(After, Re("t")) = <<>>]_vars

\* A listener was removed with the string key while the same function was
\* registered under the RegExp.
C17_RemovedByString ==
  /\ call = [op |-> "removeListener", type |-> Str("/t/")]
  /\ listeners(Cur, Str("/t/")) = <<Fn("f0")>>
  /\ patternListeners(Cur, Re("t")) = <<Fn("f1")>>
  /\ _regexesCount = 1

\* The two RegExp objects of the expression /t/.
Twins == {Re("t"), Re2("t")}

\* b is a without one entry that is l or wraps l.
OneLess(a, b, l) ==
  \E i \in 1..Len(a) :
    /\ a[i] = l \/ ListenerOf(a[i]) = l
    /\ b = SubSeq(a, 1, i - 1) \o SubSeq(a, i + 1, Len(a))

\* The number of stored regexes whose text is key.
Stored(rx, key) ==
  Cardinality({i \in 1..Len(rx) : RegexToString(rx[i]) = key})

\* C18: two RegExp objects with the same expression name one bucket. A
\* listener added through either goes to the end of that one bucket, which
\* both objects return, with one regex stored for it; removeListener through
\* either with a callback registered there removes exactly one entry of that
\* callback and leaves the others in place.
C18_TwinsShareBucket ==
  [][\A T \in Twins, l \in Functions :
       /\ patternListeners(After, Re("t")) = patternListeners(After, Re2("t"))
       /\ Added(T, l) =>
            /\ \A U \in Twins :
                 patternListeners(After, U)
                   = Append(patternListeners(Cur, U), l)
            /\ Stored(_regexes', "/t/") = 1
       /\ Removed(T, l) /\ ~NotRegisteredUnder(Cur, T, l) =>
            /\ \A U \in Twins :
                 OneLess(patternListeners(Cur, U), patternListeners(After, U), l)
            /\ Stored(_regexes', "/t/")
                 = IF patternListeners(After, T) = <<>> THEN 0 ELSE 1]_vars

\* A removeListener called with the second object has returned and left one
\* entry of the callback in the bucket, with the regex still stored.
C18_RemovedThroughTwin ==
  /\ call = [op |-> "removeListener", type |-> Re2("t")]
  /\ patternListeners(Cur, Re("t")) = <<Fn("f1")>>
  /\ _regexesCount = 1
  /\ _regexes = <<"t">>

\* The log entries of a 'removeListener' event about a listener of key.
Notices(cs, key) ==
  SelectSeq(cs, LAMBDA c : c.event = Str("removeListener")
                             /\ c.args # <<>> /\ c.args[1] = Str(key))

\* C19: removeAllListeners(pattern) returns with the pattern's bucket and
\* its regex deleted; a literal 'removeListener' listener is told once per
\* removed callback (counted where no pattern listener matches
\* 'removeListener'); the literal buckets and the buckets and regexes of the
\* other patterns are as before (but for once listeners the event reaches);
\* what a later emit matches is the literal listeners and the listeners of
\* the other patterns.
C19_RemoveAllDeletesPattern ==
  [][\A t \in Patterns :
       Called("removeAllListeners", t) =>
         /\ thrown' = "none"
         /\ _patternEvents'[Key(t)].t = "absent"
         /\ ~HasRegex(_regexes', Key(t))
         /\ LiteralEntries(Cur, Str("removeListener")) = <<Fn("f1")>>
              /\ MatchingEntries(Cur, "removeListener", PatternOrder) = <<>> =>
              Len(Notices(calls', Key(t))) = Len(PatternEntries(Cur, Key(t)))
         /\ ~OnceNotified(Cur)
              /\ (\A e \in Range(LiteralEntries(Cur, Str("removeListener"))) :
                    e.kind # "once") =>
              /\ \A k \in AllKeys :
                   Elems(heap', _events'[k]) = Elems(heap, _events[k])
              /\ \A q \in PatternKeys \ {Key(t)} :
                   PatternEntries(Post, q) = PatternEntries(Cur, q)
              /\ OtherRegexes(_regexes', Key(t)) = OtherRegexes(_regexes, Key(t))
         /\ \A et \in EmitTypes :
              matchingListeners(After, et)
                = LiteralEntries(After, et)
                    \o MatchingEntries(After, et.v,
                                       SelectSeq(PatternOrder,
                                                 LAMBDA q : q # Key(t)))]_vars

\* The function l is registered nowhere in st, neither itself nor wrapped
\* by a once closure.
Unregistered(st, l) ==
  \A e \in Registered(st) : e # l /\ ListenerOf(e) # l

\* The listeners registered with the type t.
Bucket(st, t) ==
  IF t.k = "re" THEN patternListeners(st, t) ELSE listeners(st, t)

\* The step is the call once(t, l).
OnceAdded(t, l) == Called("once", t) /\ Once(t, l)

\* Every listener of the log received (key, l).
AllAbout(cs, key, l) ==
  \A i \in 1..Len(cs) : cs[i].args = <<Str(key), ArgFn(l)>>

\* C20: the 'newListener' event of a registration is emitted before the
\* listener is active. A function registered nowhere before is not invoked
\* during its own addListener or once call, whether its type is the name
\* 'newListener' or a pattern that matches it; with a literal 'newListener'
\* listener registered the event is emitted, and what it invokes receives
\* the key and the function; the call ends with the listener registered.
C20_NotifiedBeforeActive ==
  [][\A t \in Types, l \in Functions :
       (Added(t, l) \/ OnceAdded(t, l)) /\ Unregistered(Cur, l) =>
         /\ thrown' = "none"
         /\ l.name \notin Range(Names(calls'))
         /\ AllAbout(calls', Key(t), l)
         /\ Bodies(Cur, LiteralEntries(Cur, Str("newListener"))) # <<>> =>
              calls' # <<>>
         /\ Called("addListener", t) => l \in Range(Bucket(After, t))
         /\ Called("once", t) => OnceG(t, l.name) \in Range(Bucket(After, t))]_vars

\* A pattern listener was added while a literal 'newListener' listener and a
\* listener of the same pattern, which matches 'newListener', were
\* registered: both were told, the new listener was not.
C20_ToldOthersOnly ==
  /\ call = [op |-> "addListener", type |-> Re("t")]
  /\ Names(calls) = <<"f0", "f0">>
  /\ patternListeners(Cur, Re("t")) = <<Fn("f0"), Fn("f1")>>
  /\ listeners(Cur, Str("newListener")) = <<Fn("f0")>>

\* The log cs has a call of the function called n that saw this.event = name.
Told(cs, name, n) ==
  \E i \in 1..Len(cs) : cs[i].fn = n /\ cs[i].event = Str(name)

\* The functions the pattern listeners of st run when name is emitted.
PatternBodies(st, name) ==
  Range(Bodies(st, MatchingEntries(st, name, PatternOrder)))

\* C21: 'newListener' and 'removeListener' are matched against the patterns
\* like any other name. A call that adds a listener invokes every pattern
\* listener registered before whose regex matches 'newListener', and a call
\* that removes one invokes every other pattern listener whose regex matches
\* 'removeListener', each with this.event equal to that name, whether or not
\* a literal listener is registered for the name.
C21_LifecycleEventsMatched ==
  [][\A t \in Types, l \in Functions :
       /\ Added(t, l) /\ thrown' = "none" =>
            \A n \in PatternBodies(Cur, "newListener") :
              Told(calls', "newListener", n)
       /\ Removed(t, l) /\ thrown' = "none" /\ ~NotRegisteredUnder(Cur, t, l) =>
            \A n \in PatternBodies(Cur, "removeListener") \ {l.name} :
              Told(calls', "removeListener", n)]_vars

\* The keys of the stored regexes, in their order.
KeysOf(rx) == [i \in 1..Len(rx) |-> RegexToString(rx[i])]

\* The patterns with a listener, and those with a stored regex.
Populated(st) == {p \in PatternKeys : PatternEntries(st, p) # <<>>}

\* C22: matchingListeners(N) is one flat array: the literal listeners of N,
\* then the listeners of each registered pattern that matches N, the patterns
\* in the order they were registered in and each bucket in its own order
\* (empty when nothing matches, one element for one listener). The patterns
\* with a listener are those with a stored regex; a pattern that gets its
\* first listener goes to the end of the order, and a listener for a pattern
\* that has one leaves the order alone.
C22_FlatInRegistrationOrder ==
  [][/\ \A N \in EventTypes :
          matchingListeners(After, N)
            = LiteralEntries(After, N)
                \o MatchingEntries(After, N.v, KeysOf(_regexes'))
     /\ Populated(After) = Range(KeysOf(_regexes'))
     /\ \A P \in Patterns :
          (Called("addListener", P) \/ Called("once", P)) /\ thrown' = "none" =>
            _regexes' = IF HasRegex(_regexes, Key(P)) THEN _regexes
                        ELSE Append(_regexes, P.v)
     /\ \A P \in Patterns :
          Called("removeListener", P) \/ Called("removeAllListeners", P) =>
            OtherRegexes(_regexes', Key(P)) = OtherRegexes(_regexes, Key(P))]_vars

\* Both patterns match 'zest' and /z/ was registered first: its listener
\* comes before the listener of /t/, after the literal one.
C22_LaterPatternLast ==
  /\ _regexes = <<"z", "t">>
  /\ listeners(Cur, Str("zest")) = <<Fn("f1")>>
  /\ patternListeners(Cur, Re("z")) = <<Fn("f0")>>
  /\ patternListeners(Cur, Re("t")) = <<Fn("f1")>>
  /\ matchingListeners(Cur, Str("zest")) = <<Fn("f1"), Fn("f0"), Fn("f1")>>

\* C23: an emit whose type is not a string (here the RegExp /t/, whose key
\* '/t/' the pattern /t/ matches) invokes the literal listeners registered
\* under that type's key, in order, and no pattern listener, and
\* matchingListeners of the type returns those literal listeners.
C23_NonStringIsLiteralOnly ==
  [][\A a \in EmitArgs :
       Emitted(Re("t"), a) =>
         /\ thrown' = "none"
         /\ Names(calls') = Bodies(Cur, LiteralEntries(Cur, Re("t")))
         /\ matchingListeners(Cur, Re("t")) = listeners(Cur, Str("/t/"))
         /\ matchingListeners(After, Re("t")) = listeners(After, Str("/t/"))]_vars

\* emit(/t/) has invoked the literal listener of '/t/' and not the listener
\* of the pattern /t/.
C23_PatternLeftOut ==
  /\ call = [op |-> "emit", type |-> Re("t")]
  /\ Names(calls) = <<"f1">>
  /\ patternListeners(Cur, Re("t")) = <<Fn("f0")>>
  /\ _regexesCount = 1

\* C24: emit('error', e) with no literal 'error' listener invokes the
\* listeners of the registered patterns that match 'error' with e and
\* returns true without throwing; when no pattern listener matches either,
\* the emission throws and the literal bucket of 'error' holds what it held.
C24_ErrorReachesPattern ==
  [][\A a \in EmitArgs :
       Emitted(Str("error"), a) /\ LiteralEntries(Cur, Str("error")) = <<>> =>
         IF MatchingEntries(Cur, "error", PatternOrder) # <<>>
         THEN /\ thrown' = "none"
              /\ ret' = "true"
              /\ Names(calls')
                   = Bodies(Cur, MatchingEntries(Cur, "error", PatternOrder))
              /\ \A i \in 1..Len(calls') : calls'[i].args = a
         ELSE /\ thrown' # "none"
              /\ Read(_events'["error"]) = Read(_events["error"])]_vars

\* The emitter at the start of a call, were it a plain EventEmitter with the
\* same listeners.
Plain == [Cur EXCEPT !.proto = "EventEmitter"]

\* The listeners a call ran, each with the arguments it received.
Invocations(cs) == [i \in 1..Len(cs) |-> <<cs[i].fn, cs[i].args>>]

\* The outcomes a and b of one call on two emitters are the same: the same
\* invocations in the same order, the same value returned or exception
\* thrown, and the same listeners under every name afterwards.
SideBySide(a, b) ==
  /\ Invocations(a.calls) = Invocations(b.calls)
  /\ a.ret = b.ret
  /\ a.thrown = b.thrown
  /\ \A N \in EventTypes : listeners(a, N) = listeners(b, N)
  /\ a.ev = b.ev /\ a.heap = b.heap /\ a.fired = b.fired

OnlyOnce(st, t, l) ==
  /\ OnceG(t, l.name) \in Range(PatternEntries(st, Key(t)))
  /\ OnceG(t, l.name) \notin st.fired
  /\ l \notin Registered(st)

\* C26: removeListener(P, f) removes the closure that once(P, f) registered
\* for the pattern P when that closure has not fired: the call returns, the
\* closure is in no bucket afterwards, so that no later emit, of any name,
\* dispatches to it, and when it was the only listener of P the pattern is
\* absent from _patternEvents and from _regexes.
C26_OnceRemovedByCallback ==
  [][\A t \in Patterns, l \in OnceFunctions :
       Removed(t, l) /\ OnlyOnce(Cur, t, l) =>
         /\ thrown' = "none"
         /\ OnceG(t, l.name) \notin Registered(Post)
         /\ \A N \in EventTypes :
              /\ OnceG(t, l.name) \notin Range(matchingListeners(After, N))
              /\ OnceG(t, l.name) \notin Range(listeners(After, N))
         /\ PatternEntries(Cur, Key(t)) = <<OnceG(t, l.name)>> =>
              /\ _patternEvents'[Key(t)] = Absent
              /\ ~HasRegex(_regexes', Key(t))]_vars

\* The sum of patternListenerCount(emitter, P) over the stored regexes P that
\* match the string str.
RECURSIVE MatchingSum(_, _, _)
MatchingSum(st, str, rx) ==
  IF rx = <<>> THEN 0
  ELSE (IF RegexTest(Head(rx), str)
        THEN patternListenerCount(st, Re(Head(rx))).ret ELSE 0)
         + MatchingSum(st, str, Tail(rx))

\* C27: in every state, matchingListenerCount(emitter, N) is the length of
\* matchingListeners(N), and for a string N it is listenerCount(emitter, N)
\* plus the sum of patternListenerCount(emitter, P) over the registered
\* patterns P that match N; listenerCount(emitter, N) is the number of
\* literal listeners of N and patternListenerCount(emitter, P) the number of
\* listeners of the pattern P, also where N is the text of P.
C27_CountsAddUp ==
  /\ \A N \in Types \cup EventTypes :
       /\ matchingListenerCount(Cur, N) = Len(matchingListeners(Cur, N))
       /\ listenerCount(Cur, N) = Len(LiteralEntries(Cur, N))
       /\ N.k = "str" =>
            matchingListenerCount(Cur, N)
              = listenerCount(Cur, N) + MatchingSum(Cur, N.v, _regexes)
  /\ \A P \in Patterns :
       /\ patternListenerCount(Cur, P).thrown = "none"
       /\ patternListenerCount(Cur, P).ret = Len(PatternEntries(Cur, Key(P)))

\* matchingListenerCount(emitter, '/t/') returned 2: one literal listener of
\* '/t/' and one listener of the pattern /t/.
C27_CountedBoth ==
  /\ call = [op |-> "matchingListenerCount", type |-> Str("/t/")]
  /\ ret = 2
  /\ Len(LiteralEntries(Cur, Str("/t/"))) = 1
  /\ Len(PatternEntries(Cur, "/t/")) = 1

\* The step leaves both maps, the regexes, the counter and the arrays as
\* they were.
RegistryKept ==
  /\ _events' = _events
  /\ _patternEvents' = _patternEvents
  /\ _regexes' = _regexes
  /\ _regexesCount' = _regexesCount
  /\ heap' = heap
  /\ fired' = fired

\* The call that left st threw TypeError and left the emitter it started
\* from as it was.
Rejected(st) == st = Throw(Cur, "TypeError")

C29_CounterCountsPatternListeners ==
  /\ _regexesCount = PatternTotal(Cur)
  /\ PatternTotal(Cur) > 0 => _regexesCount # 0

\* The part of the log cs a nested emission wrote: the entries between the
\* first entry of echo and the entry that marks the end of its emit.
FirstOf(cs, n) == CHOOSE i \in 1..Len(cs) :
                    cs[i].fn = n /\ \A j \in 1..(i - 1) : cs[j].fn # n
NestedPart(cs) == SubSeq(cs, FirstOf(cs, "echo") + 1, FirstOf(cs, "echoed") - 1)

\* The names of the entries es that write to the log when they are invoked
\* while echo is busy.
Heard(es) ==
  LET ns == [i \in 1..Len(es) |-> IF es[i].kind = "echo" THEN "" ELSE es[i].name]
  IN  SelectSeq(ns, LAMBDA n : n # "")

\* C30: while emit(N) runs (the counter being right and no once closure
\* involved), a listener that calls matchingListeners(N) gets each listener
\* registered for N or a matching pattern exactly once, and a listener that
\* calls emit(N) has each of them invoked exactly once by the nested
\* emission.
C30_NestedSeesEachOnce ==
  [][\A a \in EmitArgs :
       /\ Emitted(Str("test"), a)
       /\ thrown' = "none"
       /\ _regexesCount = PatternTotal(Cur)
       /\ \A e \in Range(Concerned(Cur, Str("test"))) : e.kind # "once"
       =>
       /\ \A i \in 1..Len(calls') :
            calls'[i].fn = "asker" =>
              calls'[i].args = Concerned(Cur, Str("test"))
       /\ (\E i \in 1..Len(calls') : calls'[i].fn = "echoed") =>
            Names(NestedPart(calls')) = Heard(Concerned(Cur, Str("test")))]_vars

\* How often the listener l is among the entries es.
Times(es, l) == Cardinality({i \in 1..Len(es) : es[i] = l})

\* The log cs names the function n exactly once.
RanOnce(cs, n) == Cardinality({i \in 1..Len(cs) : cs[i].fn = n}) = 1

\* C31: what a listener does to the literal listeners of N while emit(N) runs
\* is there when emit has returned. When one listener of the emission called
\* addListener(N, f1), listeners(N) has one f1 more than before and the next
\* emit(N) dispatches to it; when one called removeListener(N, f1) with f1
\* registered for N, listeners(N) has one f1 less.
C31_LiteralChangesSurvive ==
  [][\A a \in EmitArgs :
       Emitted(Str("test"), a) /\ thrown' = "none" =>
         /\ RanOnce(calls', "addsLiteral")
              /\ "removesLiteral" \notin Range(Names(calls')) =>
              /\ Times(listeners(Post, Str("test")), Fn("f1"))
                   = Times(listeners(Cur, Str("test")), Fn("f1")) + 1
              /\ Fn("f1") \in Range(Dispatched(After, Str("test")))
         /\ RanOnce(calls', "removesLiteral")
              /\ "addsLiteral" \notin Range(Names(calls'))
              /\ Fn("f1") \in Range(listeners(Cur, Str("test"))) =>
              Times(listeners(Post, Str("test")), Fn("f1"))
                = Times(listeners(Cur, Str("test")), Fn("f1")) - 1]_vars

\* Every listener emit(type) invokes in st is a plain function or one that
\* adds or removes a listener under a string key.
LiteralOpsOnly(st, type) ==
  \A e \in Range(Dispatched(st, type)) :
    \/ e.kind = "fn"
    \/ e.kind \in {"adder", "remover"} /\ e.tk = "str"

\* C32: an emit(N) whose listeners add and remove listeners under the string
\* key N only leaves every pattern bucket as it was: patternListeners(P)
\* returns after the emit what it returned before, for every pattern P.
C32_PatternBucketsUntouched ==
  [][\A a \in EmitArgs :
       Emitted(Str("test"), a) /\ LiteralOpsOnly(Cur, Str("test")) =>
         \A P \in Patterns :
           patternListeners(After, P) = patternListeners(Cur, P)]_vars

\* The closures once registered under a pattern among the listeners emit(type)
\* invokes.
OncePatternDue(st, type) ==
  {e \in Range(Dispatched(st, type)) : e.kind = "once" /\ e.tk = "re"}

\* C33: in an emit(N) that invokes a listener registered with once under a
\* pattern, the callback and every listener invoked in that emission see
\* this.event = N.
C33_OnceSeesEmittedName ==
  [][\A t \in EmitTypes, a \in EmitArgs :
       Emitted(t, a) /\ _regexesCount # 0 /\ OncePatternDue(Cur, t) # {} =>
         \A i \in 1..Len(calls') : calls'[i].event = t]_vars

\* The listeners among those emit(type) invokes that emit another event or
\* call removeListener with a pattern.
NestingDue(st, type) ==
  {e \in Range(Dispatched(st, type)) :
     \/ e.kind = "echo"
     \/ e.kind = "remover" /\ e.tk = "re"}

\* C34: in an emit(N) that invokes a listener which emits another event M, or
\* removes a listener of a pattern, every listener the emit(N) invokes sees
\* this.event = N when it is called, those invoked after the nested call
\* returned included.
C34_OuterEventKept ==
  [][\A a \in EmitArgs :
       Emitted(Str("test"), a) /\ _regexesCount # 0
         /\ NestingDue(Cur, Str("test")) # {}
         /\ OncePatternDue(Cur, Str("test")) = {} =>
         \A i \in 1..Len(calls') :
           calls'[i].fn # "echoed" => calls'[i].event = Str("test")]_vars

\* The step is the call matchingListeners(t).
AskedFor(t) ==
  call'.op = "matchingListeners" /\ call'.type = t /\ MatchingListeners(t)

\* C35: an emit(N) that invokes plain functions only leaves the emitter such
\* that a second emit(N) invokes the same listeners in the same order, and a
\* matchingListeners(N) call leaves it such that a second one returns the
\* same array, whatever the flags of the registered regexes.
C35_Repeatable ==
  [][/\ \A a \in EmitArgs :
          Emitted(Str("test"), a)
            /\ (\A e \in Range(Dispatched(Cur, Str("test"))) : e.kind = "fn") =>
            Dispatched(After, Str("test")) = Dispatched(Cur, Str("test"))
     /\ AskedFor(Str("test")) =>
          matchingListeners(After, Str("test"))
            = matchingListeners(Cur, Str("test"))]_vars

QueryOps ==
  {"listeners", "patternListeners", "matchingListeners", "listenerCount",
   "patternListenerCount", "matchingListenerCount"}

\* C36: a call of listeners, patternListeners, matchingListeners,
\* listenerCount, patternListenerCount or matchingListenerCount leaves
\* _events, _patternEvents and _regexes as they were, key for key and value
\* for value, also when the name or pattern was never registered.
C36_QueriesChangeNoMap ==
  [][call'.op \in QueryOps =>
       /\ _events' = _events
       /\ _patternEvents' = _patternEvents
       /\ _regexes' = _regexes]_vars

\* C37: an emit(N) that invokes a listener which throws 0 ends with that
\* exception: it does not return.
C37_FalsyThrowReachesCaller ==
  [][\A a \in EmitArgs :
       Emitted(Str("test"), a)
         /\ Fn("thr0") \in Range(Dispatched(Cur, Str("test"))) =>
         thrown' = "0"]_vars

\* C38: addPatternListener(pattern, fn) and onceOnPattern(pattern, fn) with a
\* pattern string that new RegExp rejects throw and register nothing:
\* afterwards _patternEvents has no entry for the pattern, and _patternEvents
\* and _regexes have the same keys.
C38_BadPatternRegistersNothing ==
  [][call'.op \in {"addPatternListener", "onceOnPattern"}
       /\ call'.type = Str("(") /\ thrown' = "SyntaxError" =>
       /\ _patternEvents'["("].t = "absent"
       /\ {k \in PatternKeys : _patternEvents'[k].t # "absent"}
            = Range(_regexes')]_vars

====
